---- MODULE Spec2Model ----
(***************************************************************************)
(* Model of crop_icons.py: the crop-to-content / pad-to-square transform   *)
(* (crop_image) and the os.walk loop that applies it to every ".png" file  *)
(* of a directory tree.                                                    *)
(*                                                                         *)
(* An image is a record [mode, w, h, px]; px maps <<x, y>> (0-based, x to  *)
(* the right, y down) to a pixel, a tuple of band values.  A path is a     *)
(* sequence of path components.  The file system is fs (path -> content)   *)
(* and dirs (the set of directories).                                      *)
(***************************************************************************)
EXTENDS Integers, Sequences, FiniteSets, TLC

VARIABLES
    fs,             \* the files: resolved path -> content
    dirs,           \* the directories: set of resolved paths
    output_folder,  \* destination root (line 35)
    alpha_only,     \* the rule of the installed Pillow's getbbox on RGBA images
    stack,          \* os.walk: directories still to be scanned
    root,           \* os.walk: the directory whose listing is being iterated
    files,          \* os.walk: file names of root's listing not yet iterated
    locals,         \* bbox, width, height, size and offset of the last crop_image call
    log,            \* history: file-system operations done by the script, in order
    fs0,            \* history: the files when the script started
    dirs0,          \* history: the directories when the script started
    pc              \* position of the script

vars == <<fs, dirs, output_folder, alpha_only, stack, root, files, locals, log,
          fs0, dirs0, pc>>

----------------------------------------------------------------------------
(* Bounds of the model *)

MaxW == 3
MaxH == 3
MaxDots == 2
MaxFiles == 2

----------------------------------------------------------------------------
(* Pixels and images *)

\* fill colour of the canvas: (255, 255, 255, 0)
PadColor == <<255, 255, 255, 0>>

Coords(w, h) == (0 .. w - 1) \X (0 .. h - 1)

\* a slip: the side taken from the width alone
MaxFirst(a, b) == a

\* builtin max
Max(a, b) == IF a >= b THEN a ELSE b

\* img.convert("RGBA"): an RGB pixel gets alpha 255, an RGBA pixel is kept
Convert(im) ==
    [mode |-> "RGBA", w |-> im.w, h |-> im.h,
     px |-> [c \in DOMAIN im.px |->
                IF im.mode = "RGB" THEN Append(im.px[c], 255) ELSE im.px[c]]]

\* getbbox counts a pixel as content when it is non-zero: on an RGBA image the
\* alpha band alone decides (Pillow >= 7.1, alpha_only=True), or any band does
NonZero(p, alphaOnly) ==
    IF alphaOnly THEN p[4] # 0 ELSE \E i \in 1 .. Len(p) : p[i] # 0

NoBox == <<>>

SetMin(S) == CHOOSE m \in S : \A n \in S : m <= n
SetMax(S) == CHOOSE m \in S : \A n \in S : m >= n

\* a slip: right and lower taken as the last content column and row
GetBBoxInclusive(im, alphaOnly) ==
    LET content == {c \in DOMAIN im.px : NonZero(im.px[c], alphaOnly)}
        xs == {c[1] : c \in content}
        ys == {c[2] : c \in content}
    IN  IF content = {} THEN NoBox
        ELSE <<SetMin(xs), SetMin(ys), SetMax(xs), SetMax(ys)>>

\* img.getbbox(): (left, upper, right, lower), right and lower exclusive, of the
\* non-zero region; None when the image has no non-zero pixel
GetBBox(im, alphaOnly) ==
    LET content == {c \in DOMAIN im.px : NonZero(im.px[c], alphaOnly)}
        xs == {c[1] : c \in content}
        ys == {c[2] : c \in content}
    IN  IF content = {} THEN NoBox
        ELSE <<SetMin(xs), SetMin(ys), SetMax(xs) + 1, SetMax(ys) + 1>>

\* a slip: no box taken as the empty box
CropNoneEmpty(im, box) ==
    LET b == IF box = NoBox THEN <<0, 0, 0, 0>> ELSE box
    IN  [mode |-> im.mode, w |-> b[3] - b[1], h |-> b[4] - b[2],
         px |-> [c \in Coords(b[3] - b[1], b[4] - b[2]) |->
                    im.px[<<b[1] + c[1], b[2] + c[2]>>]]]

\* img.crop(box): the region of the box; crop(None) is a copy of the image
Crop(im, box) ==
    IF box = NoBox THEN im
    ELSE [mode |-> im.mode, w |-> box[3] - box[1], h |-> box[4] - box[2],
          px |-> [c \in Coords(box[3] - box[1], box[4] - box[2]) |->
                     im.px[<<box[1] + c[1], box[2] + c[2]>>]]]

\* Image.new("RGBA", (size, size), color)
NewImage(size, color) ==
    [mode |-> "RGBA", w |-> size, h |-> size,
     px |-> [c \in Coords(size, size) |-> color]]

\* canvas.paste(im, (ox, oy)): without a mask the pixels of the region are
\* replaced by those of im
Paste(canvas, im, off) ==
    [canvas EXCEPT !.px =
        [c \in DOMAIN canvas.px |->
            IF /\ off[1] <= c[1] /\ c[1] < off[1] + im.w
               /\ off[2] <= c[2] /\ c[2] < off[2] + im.h
            THEN im.px[<<c[1] - off[1], c[2] - off[2]>>]
            ELSE canvas.px[c]]]

\* a slip: pasted at the top-left corner
PasteTopLeft(size, width, height) == <<0, 0>>

\* paste offset of line 25
PasteOffset(size, width, height) ==
    <<(size - width) \div 2, (size - height) \div 2>>

\* lines 9-25 of crop_image on an opened image: every local variable
Transform(opened, alphaOnly) ==
    LET img == Convert(opened)
        bbox == GetBBox(img, alphaOnly)
        cropped_img == Crop(img, bbox)
        width == cropped_img.w
        height == cropped_img.h
        size == Max(width, height)
        new_img == NewImage(size, PadColor)
        offset == PasteOffset(size, width, height)
    IN  [img |-> img, bbox |-> bbox, cropped_img |-> cropped_img,
         width |-> width, height |-> height, size |-> size, offset |-> offset,
         new_img |-> Paste(new_img, cropped_img, offset)]

----------------------------------------------------------------------------
(* Paths *)

\* a path component is its sequence of characters
TEAMS == <<"t", "e", "a", "m", "s">>
OUT == <<"o", "u", "t">>
D == <<"d">>
E == <<"e">>
CurDir == <<".">>

\* the suffix tested at line 43
PngSuffix == <<".", "p", "n", "g">>

\* line 34: the source root
input_folder == <<TEAMS>>

\* the other destination root the walker is specified for (a tree of its own)
other_folder == <<OUT>>

\* a slip: the suffix looked for anywhere in the name
ContainsSuffix(name, suffix) ==
    \E i \in 1 .. Len(name) - Len(suffix) + 1 :
        SubSeq(name, i, i + Len(suffix) - 1) = suffix

\* str.endswith
EndsWith(name, suffix) ==
    /\ Len(name) >= Len(suffix)
    /\ SubSeq(name, Len(name) - Len(suffix) + 1, Len(name)) = suffix

\* os.path.join of a path and a relative path
Join(a, b) == a \o b

\* a slip: every directory taken as the root
RelPathFlat(path, start) == <<CurDir>>

\* a slip: the path taken relative to the parent of start
RelPathFromParent(path, start) == SubSeq(path, Len(start), Len(path))

\* os.path.relpath(path, start) for a path at or below start: "." for start
\* itself, otherwise the components below it
RelPath(path, start) ==
    IF Len(path) = Len(start) THEN <<CurDir>>
    ELSE SubSeq(path, Len(start) + 1, Len(path))

\* the file or directory a path names: "." components name nothing new
Resolve(p) == SelectSeq(p, LAMBDA c : c # CurDir)

Parent(p) == SubSeq(p, 1, Len(p) - 1)

IsPrefix(a, b) == Len(a) <= Len(b) /\ SubSeq(b, 1, Len(a)) = a

\* the path and every directory above it
Ancestors(p) == {SubSeq(p, 1, k) : k \in 1 .. Len(p)}

----------------------------------------------------------------------------
(* Files *)

Png(im) == [format |-> "PNG", im |-> im]
Junk == [format |-> "none"]
Truncated == [format |-> "truncated"]

Put(f, p, c) == [q \in DOMAIN f \cup {p} |-> IF q = p THEN c ELSE f[q]]

NoLocals == [called |-> FALSE]

Event(op, path) == [op |-> op, path |-> path]

\* a slip: the exception of a file swallowed, the loop going on
crop_image_caught(input_path, output_path, ds, lg, fault, after) ==
    LET inp == Resolve(input_path)
        outp == Resolve(output_path)
    IN  IF inp \notin DOMAIN fs \/ fs[inp].format # "PNG" \/ fault = "open"
        THEN /\ log' = Append(Append(lg, Event("open", inp)), Event("raise", inp))
             /\ pc' = after
             /\ UNCHANGED <<fs, locals>>
        ELSE LET l == Transform(fs[inp].im, alpha_only)
                 lg2 == Append(Append(lg, Event("open", inp)), Event("save", outp))
             IN  /\ locals' = [bbox |-> l.bbox, width |-> l.width, height |-> l.height,
                                size |-> l.size, offset |-> l.offset]
                 /\ IF Parent(outp) \notin ds \/ outp \in ds \/ fault = "save"
                    THEN /\ fs' = fs
                         /\ log' = Append(lg2, Event("raise", outp))
                         /\ pc' = after
                    ELSE /\ fs' = Put(fs, outp, Png(l.new_img))
                         /\ log' = lg2
                         /\ pc' = after

\* crop_image (lines 4-28) with the directories as they are when it is called.
\* Image.open / convert raise on a missing or unreadable file; save raises when
\* the file cannot be created or written, and may leave it truncated.  The
\* exception is not handled anywhere: the script ends ("raise" in the log).
crop_image(input_path, output_path, ds, lg, fault, after) ==
    LET inp == Resolve(input_path)
        outp == Resolve(output_path)
    IN  IF inp \notin DOMAIN fs \/ fs[inp].format # "PNG" \/ fault = "open"
        THEN /\ log' = Append(Append(lg, Event("open", inp)), Event("raise", inp))
             /\ pc' = "raised"
             /\ UNCHANGED <<fs, locals>>
        ELSE LET l == Transform(fs[inp].im, alpha_only)
                 lg2 == Append(Append(lg, Event("open", inp)), Event("save", outp))
             IN  /\ locals' = [bbox |-> l.bbox, width |-> l.width, height |-> l.height,
                                size |-> l.size, offset |-> l.offset]
                 /\ IF Parent(outp) \notin ds \/ outp \in ds
                    THEN /\ fs' = fs
                         /\ log' = Append(lg2, Event("raise", outp))
                         /\ pc' = "raised"
                    ELSE IF fault = "save"
                    THEN /\ fs' \in {fs, Put(fs, outp, Truncated)}
                         /\ log' = Append(lg2, Event("raise", outp))
                         /\ pc' = "raised"
                    ELSE /\ fs' = Put(fs, outp, Png(l.new_img))
                         /\ log' = lg2
                         /\ pc' = after

\* os.makedirs(output_dir, exist_ok=True): creates the missing directories of
\* the path, top down; an existing directory is no error
makedirs_ok(output_dir, fault) ==
    LET target == Resolve(output_dir)
    IN  \/ target \in dirs
        \/ /\ fault # "makedirs"
           /\ \A a \in Ancestors(target) : a \notin DOMAIN fs

makedirs_result(output_dir) == dirs \cup Ancestors(Resolve(output_dir))

\* the mkdir calls of makedirs, top down
RECURSIVE MkdirEvents(_, _, _)
MkdirEvents(target, k, ds) ==
    IF k > Len(target) THEN <<>>
    ELSE (IF SubSeq(target, 1, k) \in ds THEN <<>>
          ELSE <<Event("mkdir", SubSeq(target, 1, k))>>)
         \o MkdirEvents(target, k + 1, ds)

----------------------------------------------------------------------------
(* The walk (lines 41-53) *)

Last(p) == p[Len(p)]

\* the orders a directory listing can come in
Perms(S) ==
    {s \in [1 .. Cardinality(S) -> S] : \A i, j \in DOMAIN s : i # j => s[i] # s[j]}

Faults == {"none", "makedirs", "open", "save"}

\* a slip: the listing of the root alone, no descent
WalkScanFlat ==
    /\ pc = "walk"
    /\ files = {}
    /\ stack # <<>>
    /\ LET top == Head(stack)
           names == {Last(q) : q \in {q \in DOMAIN fs : Parent(q) = top}}
       IN  /\ root' = top
           /\ files' = IF top \in dirs THEN names ELSE {}
           /\ stack' = Tail(stack)
    /\ UNCHANGED <<fs, dirs, output_folder, alpha_only, locals, log, fs0, dirs0, pc>>

\* os.walk resumes: the next directory is scanned (top down); its
\* sub-directories are queued before those already waiting, and a directory that
\* cannot be listed yields nothing
WalkScan ==
    /\ pc = "walk"
    /\ files = {}
    /\ stack # <<>>
    /\ LET top == Head(stack)
           subdirs == {d \in dirs : Len(d) = Len(top) + 1 /\ IsPrefix(top, d)}
           names == {Last(q) : q \in {q \in DOMAIN fs : Parent(q) = top}}
       IN  /\ root' = top
           /\ files' = IF top \in dirs THEN names ELSE {}
           /\ \E order \in Perms(subdirs) : stack' = order \o Tail(stack)
    /\ UNCHANGED <<fs, dirs, output_folder, alpha_only, locals, log, fs0, dirs0, pc>>

\* one iteration of "for filename in files" (lines 42-53)
LoopBody(filename, fault) ==
    /\ pc = "walk"
    /\ filename \in files
    /\ files' = files \ {filename}
    /\ IF ~EndsWith(filename, PngSuffix)
       THEN UNCHANGED <<fs, dirs, locals, log, pc>>
       ELSE LET input_path == Join(root, <<filename>>)
                relative_path == RelPath(root, input_folder)
                output_dir == Join(output_folder, relative_path)
                output_path == Join(output_dir, <<filename>>)
                target == Resolve(output_dir)
            IN  IF ~makedirs_ok(output_dir, fault)
                THEN /\ \E k \in 0 .. Len(target) - 1 :
                           /\ \A a \in Ancestors(SubSeq(target, 1, k)) : a \notin DOMAIN fs
                           /\ dirs' = dirs \cup Ancestors(SubSeq(target, 1, k))
                           /\ log' = Append(log \o MkdirEvents(SubSeq(target, 1, k), 1, dirs),
                                            Event("raise", target))
                     /\ pc' = "raised"
                     /\ UNCHANGED <<fs, locals>>
                ELSE /\ dirs' = makedirs_result(output_dir)
                     /\ crop_image(input_path, output_path, makedirs_result(output_dir),
                                   log \o MkdirEvents(target, 1, dirs), fault, "walk")
    /\ UNCHANGED <<output_folder, alpha_only, stack, root, fs0, dirs0>>

\* os.walk is exhausted: the script ends
WalkEnd ==
    /\ pc = "walk"
    /\ files = {}
    /\ stack = <<>>
    /\ pc' = "done"
    /\ UNCHANGED <<fs, dirs, output_folder, alpha_only, stack, root, files, locals,
                   log, fs0, dirs0>>

----------------------------------------------------------------------------
(* The trees the walk is checked on *)

APng == <<"a", ".", "p", "n", "g">>
BarePng == <<".", "p", "n", "g">>
UpperPng == <<"a", ".", "P", "N", "G">>
AJpg == <<"a", ".", "j", "p", "g">>
ABak == <<"a", ".", "p", "n", "g", ".", "b", "a", "k">>
Png3 == <<"p", "n", "g">>

FileNames == {APng, BarePng, UpperPng, AJpg, ABak, Png3}

Clear == <<0, 0, 0, 0>>
White == <<255, 255, 255, 255>>
Ink == <<200, 30, 30, 255>>
White3 == <<255, 255, 255>>
Ink3 == <<200, 30, 30>>

\* a 3 x 1 icon: one inked pixel between a transparent and a white one
SampleIcon ==
    [mode |-> "RGBA", w |-> 3, h |-> 1,
     px |-> [c \in Coords(3, 1) |->
                IF c[1] = 0 THEN Clear ELSE IF c[1] = 1 THEN Ink ELSE White]]

Contents == {Png(SampleIcon), Junk}

SourceDirs ==
    {input_folder, Join(input_folder, <<D>>), Join(input_folder, <<D, E>>)}

\* directory sets: with a directory, its parent
DirSets == {S \in SUBSET SourceDirs : \A d \in S : Len(d) > 1 => Parent(d) \in S}

Positions(S) == {Join(d, <<n>>) : d \in S, n \in FileNames}

\* the subsets of S of at most k elements
RECURSIVE SubsetsUpTo(_, _)
SubsetsUpTo(S, k) ==
    IF k = 0 THEN {{}}
    ELSE LET smaller == SubsetsUpTo(S, k - 1)
         IN  smaller \cup {T \cup {x} : T \in smaller, x \in S}

\* the destination tree before the run, when it is a tree of its own
DestStates ==
    {[dirs |-> {}, fs |-> <<>>],
     [dirs |-> {other_folder}, fs |-> (Join(other_folder, <<APng>>) :> Junk)],
     [dirs |-> {other_folder}, fs |-> (Join(other_folder, <<D>>) :> Junk)]}

\* the script starts on a tree of at most MaxFiles files; a file the walk has
\* no reason to open holds a valid image, a ".png" file a valid image or not.
\* The walk does not depend on the rule of getbbox: the current one is taken.
Init ==
    /\ output_folder \in {input_folder, other_folder}
    /\ alpha_only = TRUE
    /\ \E S \in DirSets, dst \in DestStates :
         \E P \in SubsetsUpTo(Positions(S), MaxFiles) :
           \E content \in {c \in [P -> Contents] :
                              \A q \in P : ~EndsWith(Last(q), PngSuffix) => c[q] # Junk} :
             /\ dirs = (IF output_folder = input_folder THEN S ELSE S \cup dst.dirs)
             /\ fs = (IF output_folder = input_folder THEN content ELSE content @@ dst.fs)
    /\ fs0 = fs
    /\ dirs0 = dirs
    /\ stack = <<input_folder>>
    /\ root = input_folder
    /\ files = {}
    /\ locals = NoLocals
    /\ log = <<>>
    /\ pc = "walk"

Next ==
    \/ WalkScan
    \/ \E filename \in FileNames, fault \in Faults : LoopBody(filename, fault)
    \/ WalkEnd

Spec == Init /\ [][Next]_vars

----------------------------------------------------------------------------
(* crop_image on its own: one image, transformed, and its output transformed
   again *)

PadOnly == <<255, 255, 255, 0>>

Palette(mode) == IF mode = "RGB" THEN {White3, Ink3} ELSE {Clear, PadOnly, White, Ink}

\* a w x h image of one colour with a few pixels of another
Dotted(mode, w, h, base, dot, dots) ==
    [mode |-> mode, w |-> w, h |-> h,
     px |-> [c \in Coords(w, h) |-> IF c \in dots THEN dot ELSE base]]

\* a 100 x 40 opaque white image with a 60 x 30 inked rectangle at (20, 5)
ScenarioImage ==
    [mode |-> "RGB", w |-> 100, h |-> 40,
     px |-> [c \in Coords(100, 40) |->
                IF 20 <= c[1] /\ c[1] < 80 /\ 5 <= c[2] /\ c[2] < 35
                THEN Ink3 ELSE White3]]

OncePng == <<"1", ".", "p", "n", "g">>
TwicePng == <<"2", ".", "p", "n", "g">>

InPath == Join(input_folder, <<APng>>)
OncePath == Join(input_folder, <<OncePng>>)
TwicePath == Join(input_folder, <<TwicePng>>)

ImgInit ==
    /\ output_folder = input_folder
    /\ alpha_only \in BOOLEAN
    /\ dirs = {input_folder}
    /\ \/ \E mode \in {"RGB", "RGBA"}, w \in 1 .. MaxW, h \in 1 .. MaxH :
             \E base \in Palette(mode), dot \in Palette(mode) :
               \E dots \in SubsetsUpTo(Coords(w, h), MaxDots) :
                 /\ dots = {} => dot = base
                 /\ fs = (InPath :> Png(Dotted(mode, w, h, base, dot, dots)))
       \/ fs = (InPath :> Png(ScenarioImage))
    /\ fs0 = fs
    /\ dirs0 = dirs
    /\ stack = <<>>
    /\ root = input_folder
    /\ files = {}
    /\ locals = NoLocals
    /\ log = <<>>
    /\ pc = "first"

\* crop_image(a.png, 1.png)
FirstPass ==
    /\ pc = "first"
    /\ crop_image(InPath, OncePath, dirs, log, "none", "second")
    /\ UNCHANGED <<dirs, output_folder, alpha_only, stack, root, files, fs0, dirs0>>

\* crop_image(1.png, 2.png)
SecondPass ==
    /\ pc = "second"
    /\ crop_image(OncePath, TwicePath, dirs, log, "none", "done")
    /\ UNCHANGED <<dirs, output_folder, alpha_only, stack, root, files, fs0, dirs0>>

ImgNext == FirstPass \/ SecondPass

SpecImage == ImgInit /\ [][ImgNext]_vars

----------------------------------------------------------------------------
(* Properties of crop_image, under SpecImage *)

\* the crop_image calls made so far: <<input path, output path>>
Passes ==
    {pr \in {<<InPath, OncePath>>, <<OncePath, TwicePath>>} : pr[2] \in DOMAIN fs}

\* the non-background pixels of a file's image, by the rule of getbbox
ContentOf(im) ==
    {c \in Coords(im.w, im.h) :
        LET p == IF im.mode = "RGB" THEN im.px[c] \o <<255>> ELSE im.px[c]
        IN  IF alpha_only THEN p[4] # 0 ELSE p # <<0, 0, 0, 0>>}

Left(S) == CHOOSE x \in {c[1] : c \in S} : \A c \in S : x <= c[1]
Right(S) == CHOOSE x \in {c[1] : c \in S} : \A c \in S : x >= c[1]
Top(S) == CHOOSE y \in {c[2] : c \in S} : \A c \in S : y <= c[2]
Bottom(S) == CHOOSE y \in {c[2] : c \in S} : \A c \in S : y >= c[2]

BoxWidth(S) == Right(S) - Left(S) + 1
BoxHeight(S) == Bottom(S) - Top(S) + 1
Larger(a, b) == IF a < b THEN b ELSE a

\* C1: for an input with a non-empty non-background region, the image written
\* is square and its side is the larger of the width and the height of the
\* bounding box of that region.
C1_OutputSquare ==
    \A pr \in Passes :
        LET S == ContentOf(fs[pr[1]].im)
            out == fs[pr[2]].im
        IN  S # {} =>
               /\ out.w = out.h
               /\ out.w = Larger(BoxWidth(S), BoxHeight(S))
               /\ DOMAIN out.px = Coords(out.w, out.h)

C1_Witness ==
    /\ OncePath \in DOMAIN fs
    /\ LET S == ContentOf(fs[InPath].im)
       IN  /\ S # {}
           /\ BoxWidth(S) < BoxHeight(S)
           /\ BoxHeight(S) < fs[InPath].im.h
           /\ fs[OncePath].im.w = BoxHeight(S)

\* what crop_image keeps of an input: its bounding box, or all of it when it
\* has no content
Kept(im) ==
    LET S == ContentOf(im)
    IN  IF S = {} THEN [l |-> 0, t |-> 0, w |-> im.w, h |-> im.h]
        ELSE [l |-> Left(S), t |-> Top(S), w |-> BoxWidth(S), h |-> BoxHeight(S)]

RGBA(im, c) == IF im.mode = "RGB" THEN im.px[c] \o <<255>> ELSE im.px[c]

\* C2: the kept content (w x h) sits on the S x S canvas, S = max(w, h), at
\* (floor((S-w)/2), floor((S-h)/2)): wholly inside, the margins of either axis
\* differ by at most one pixel, and every pixel outside it is (255,255,255,0).
C2_Centered ==
    \A pr \in Passes :
        LET im == fs[pr[1]].im
            out == fs[pr[2]].im
            k == Kept(im)
            side == Larger(k.w, k.h)
            ox == (side - k.w) \div 2
            oy == (side - k.h) \div 2
            inside(c) == /\ ox <= c[1] /\ c[1] < ox + k.w
                         /\ oy <= c[2] /\ c[2] < oy + k.h
        IN  /\ out.w = side /\ out.h = side
            /\ 0 <= ox /\ ox + k.w <= side
            /\ 0 <= oy /\ oy + k.h <= side
            /\ (side - k.w - ox) - ox \in {0, 1}
            /\ (side - k.h - oy) - oy \in {0, 1}
            /\ \A c \in Coords(side, side) :
                 out.px[c] = IF inside(c)
                             THEN RGBA(im, <<k.l + c[1] - ox, k.t + c[2] - oy>>)
                             ELSE <<255, 255, 255, 0>>

C2_Witness ==
    /\ OncePath \in DOMAIN fs
    /\ LET k == Kept(fs[InPath].im)
           out == fs[OncePath].im
       IN  /\ k.w = 1 /\ k.h = 3 /\ k.l = 1
           /\ out.px[<<1, 0>>] = Ink
           /\ out.px[<<0, 0>>] = <<255, 255, 255, 0>>
           /\ out.px[<<2, 2>>] = <<255, 255, 255, 0>>

\* C3: on the 100 x 40 white image with a 60 x 30 non-white rectangle at
\* (20, 5), crop_image computes the bounding box (20,5,80,35), crops to 60 x 30,
\* builds a canvas of side 60, pastes at (0, 15) and writes a 60 x 60 image with
\* the rectangle at (0,15)-(60,45) and transparent white everywhere else.
C3_Scenario ==
    (fs[InPath].im = ScenarioImage /\ pc = "second") =>
        /\ locals.bbox = <<20, 5, 80, 35>>
        /\ locals.width = 60 /\ locals.height = 30
        /\ locals.size = 60
        /\ locals.offset = <<0, 15>>
        /\ fs[OncePath].im.w = 60 /\ fs[OncePath].im.h = 60
        /\ \A c \in Coords(60, 60) :
             fs[OncePath].im.px[c] =
                IF 15 <= c[2] /\ c[2] < 45 THEN Ink3 \o <<255>>
                ELSE <<255, 255, 255, 0>>

\* C4: applying crop_image to its own output writes the same image again, for
\* every input with a non-empty non-background region.
C4_Idempotent ==
    (TwicePath \in DOMAIN fs /\ ContentOf(fs[InPath].im) # {}) =>
        fs[TwicePath] = fs[OncePath]

\* the content of the first output touches no edge of the canvas in one case
\* and spans the whole canvas in the other
C4_Witness ==
    /\ TwicePath \in DOMAIN fs
    /\ ContentOf(fs[InPath].im) # {}
    /\ fs[TwicePath] = fs[OncePath]
    /\ fs[OncePath].im # Convert(fs[InPath].im)
    /\ LET k == Kept(fs[OncePath].im)
       IN  k.w < fs[OncePath].im.w /\ k.h = fs[OncePath].im.h

\* C10: for an image with no non-background content crop_image raises
\* nothing: it keeps the whole W x H image and writes a square of side
\* max(W, H) with the unchanged pixels centred on it.
C10_NoContent ==
    (pc # "first" /\ ContentOf(fs[InPath].im) = {}) =>
        /\ pc # "raised"
        /\ OncePath \in DOMAIN fs
        /\ LET im == fs[InPath].im
               out == fs[OncePath].im
               side == Larger(im.w, im.h)
               ox == (side - im.w) \div 2
               oy == (side - im.h) \div 2
           IN  /\ out.w = side /\ out.h = side
               /\ \A c \in Coords(im.w, im.h) :
                    out.px[<<c[1] + ox, c[2] + oy>>] = RGBA(im, c)

C10_Witness ==
    /\ pc = "second"
    /\ ContentOf(fs[InPath].im) = {}
    /\ locals.bbox = NoBox
    /\ fs[InPath].im.w = 3 /\ fs[InPath].im.h = 1
    /\ fs[OncePath].im.h = 3
    /\ \E c \in DOMAIN fs[InPath].im.px : fs[InPath].im.px[c] = PadOnly
    /\ \E c \in DOMAIN fs[InPath].im.px : fs[InPath].im.px[c] = Clear

----------------------------------------------------------------------------
(* Properties of the walk, under Spec and FairSpec *)

IsPngName(n) ==
    /\ Len(n) >= 4
    /\ n[Len(n) - 3] = "." /\ n[Len(n) - 2] = "p"
    /\ n[Len(n) - 1] = "n" /\ n[Len(n)] = "g"

UnderSource(p) == Len(p) >= 2 /\ p[1] = TEAMS

\* the files the run is to process: the ".png" files of the source tree at the start
Eligible0 == {p \in DOMAIN fs0 : UnderSource(p) /\ IsPngName(p[Len(p)])}

\* source_root/rel/name -> destination_root/rel/name
DestOf(p) == output_folder \o SubSeq(p, 2, Len(p))

Count(op, path) ==
    Cardinality({i \in DOMAIN log : log[i].op = op /\ log[i].path = path})

Written(p) == Png(Transform(fs0[p].im, alpha_only).new_img)

\* C5: after a run that ends without error every ".png" file of the source
\* tree, in source_root/rel, has been written exactly once, to
\* destination_root/rel/<its name>, and nothing else has been written; a source
\* tree without files gives no write and no error.
C5_Mirrored ==
    /\ pc = "done" =>
          /\ \A p \in Eligible0 :
                /\ Count("save", DestOf(p)) = 1
                /\ DestOf(p) \in DOMAIN fs
                /\ fs[DestOf(p)] = Written(p)
          /\ \A i \in DOMAIN log :
                log[i].op = "save" => \E p \in Eligible0 : log[i].path = DestOf(p)
    /\ {p \in DOMAIN fs0 : UnderSource(p)} = {} => (log = <<>> /\ pc # "raised")

C5_Witness ==
    /\ pc = "done"
    /\ output_folder = other_folder
    /\ Cardinality(Eligible0) = 2
    /\ \E p \in Eligible0 : Len(p) = 4 /\ DestOf(p) \in DOMAIN fs
    /\ \E p \in Eligible0 : Len(p) = 2 /\ DestOf(p) \in DOMAIN fs

\* C6: a file whose name does not end with ".png" is never opened and never
\* written, and no directory is created but on the way to the output
\* directory of a ".png" file.
C6_OnlyPng ==
    /\ \A i \in DOMAIN log :
          /\ log[i].op \in {"open", "save"} => IsPngName(log[i].path[Len(log[i].path)])
          /\ log[i].op = "mkdir" =>
                \E p \in Eligible0 : IsPrefix(log[i].path, Parent(DestOf(p)))
    /\ \A p \in DOMAIN fs0 :
          ~IsPngName(p[Len(p)]) => (p \in DOMAIN fs /\ fs[p] = fs0[p])

C6_Witness ==
    /\ pc = "done"
    /\ \E p \in DOMAIN fs0, q \in Eligible0 :
          /\ UnderSource(p)
          /\ p[Len(p)] \in {ABak, UpperPng}
          /\ fs0[p].format = "PNG"
          /\ Parent(p) = Parent(q)
          /\ Count("save", DestOf(q)) = 1

\* C7: a failure on a file is not caught: it ends the run, nothing is read or
\* written after it, and what was written for the files before it stays.
C7_FailureStops ==
    /\ \A i \in DOMAIN log : log[i].op = "raise" => (i = Len(log) /\ pc = "raised")
    /\ pc = "raised" => (log # <<>> /\ log[Len(log)].op = "raise")
    /\ \A i \in DOMAIN log :
          (log[i].op = "save" /\ ~(i < Len(log) /\ log[i + 1].op = "raise")) =>
              \E p \in Eligible0 :
                 /\ log[i].path = DestOf(p)
                 /\ DestOf(p) \in DOMAIN fs
                 /\ fs[DestOf(p)] = Written(p)

\* the first file of a directory fails and a second ".png" file is left
C7_Witness ==
    /\ pc = "raised"
    /\ \E n \in files : IsPngName(n) /\ Count("open", Join(root, <<n>>)) = 0

C8_OneByOne ==
    /\ \A i \in DOMAIN log :
          /\ log[i].op = "open" =>
                /\ i < Len(log)
                /\ \/ log[i + 1] = Event("save", DestOf(log[i].path))
                   \/ log[i + 1].op = "raise"
          /\ log[i].op = "save" => (i > 1 /\ log[i - 1].op = "open")
    /\ \A p \in Eligible0 : Count("open", p) <= 1
    /\ pc = "done" => \A p \in Eligible0 : Count("open", p) = 1 /\ Count("save", DestOf(p)) = 1

\* the work left: directories not yet scanned, names not yet iterated, the end
Pending ==
    {d \in dirs \cup {stack[i] : i \in DOMAIN stack} :
        \E i \in DOMAIN stack : IsPrefix(stack[i], d)}

Measure ==
    Cardinality(Pending) * (Cardinality(FileNames) + 1) + Cardinality(files)
    + (IF pc = "walk" THEN 1 ELSE 0)

\* C8: the walk ends (every step takes from the work left, and the script
\* stops only at its end or on a failure: until then a directory is to be
\* scanned, a listed name is to be iterated, or the walk is exhausted), and when it ends without a failure
\* every ".png" file that was in the source tree at the start has been
\* processed exactly once, each read followed at once by its write; also with
\* the destination root equal to the source root.
C8_Terminates ==
    /\ [](C8_OneByOne)
    /\ [][Measure' < Measure]_vars
    /\ [](pc \in {"done", "raised"}
            \/ ENABLED WalkScan \/ ENABLED WalkEnd \/ files \cap FileNames # {})

C8_Witness ==
    /\ pc = "done"
    /\ output_folder = input_folder
    /\ Cardinality(Eligible0) = 2
    /\ \E p \in Eligible0 : Len(p) = 4
    /\ Len(log) = 4

\* C9: with the destination root equal to the source root a run keeps the set
\* of file paths and the set of directories, makedirs creates nothing, every
\* ".png" file is overwritten at its own path and the other files keep their
\* content.
C9_InPlace ==
    output_folder = input_folder =>
        /\ DOMAIN fs = DOMAIN fs0
        /\ dirs = dirs0
        /\ \A i \in DOMAIN log :
              /\ log[i].op # "mkdir"
              /\ log[i].op = "save" => log[i].path \in Eligible0
        /\ \A p \in DOMAIN fs0 : ~IsPngName(p[Len(p)]) => fs[p] = fs0[p]
        /\ pc = "done" =>
              \A p \in Eligible0 : Count("save", p) = 1 /\ fs[p] = Written(p)

C9_Witness ==
    /\ pc = "done"
    /\ output_folder = input_folder
    /\ \E p \in Eligible0 : Len(p) = 3 /\ fs[p] # fs0[p]
    /\ \E p \in DOMAIN fs0 : p \notin Eligible0 /\ fs0[p].format = "PNG"

====
